---- MODULE Spec2Model ----
(***************************************************************************)
(* Model of pdf2docx/layout/Layout.py: the Layout object of one page, its  *)
(* margin inference, its parse pipeline, explicit table recognition from   *)
(* rectangle groups and vertical spacing propagation.                      *)
(*                                                                         *)
(* Lengths are Python floats in points.  The model takes coordinates as    *)
(* whole points and stores every derived length (margins, spacing bounds)  *)
(* as a count of half points, so that "bottom *= 0.5" and "w_top/2.0" are  *)
(* exact.  Fx(x) is the half-point count of x points.                      *)
(***************************************************************************)
EXTENDS Integers, Sequences, FiniteSets, TLC

VARIABLES width, height, blocks, margin_, rects, grid, globals, DM,
          last, raised, got, ret, trace, tables, spaced

vars == <<width, height, blocks, margin_, rects, grid, globals, DM,
          last, raised, got, ret, trace, tables, spaced>>

(* ------------------------------------------------------------------ *)
(* Bounds of the model                                                *)
(* ------------------------------------------------------------------ *)
MaxBlocks == 2
MaxRects == 3
MaxGroups == 2
MaxDepth == 2

(* ------------------------------------------------------------------ *)
(* Constants of the program                                           *)
(* ------------------------------------------------------------------ *)
\* utils.ITP, "1 Inch = 72 pt"
ITP == 72
\* rect['type'] = -1, the tag of a rect that is not classified
UNCLASSIFIED == -1
\* tags given by border classification
BORDER == 10
SHADING == 11

\* Python's None, and the value of a variable no call has set
None == <<>>

Fx(x) == 2 * x

MinOf(a, b) == IF a <= b THEN a ELSE b
MaxOf(a, b) == IF a >= b THEN a ELSE b
SetMin(S) == CHOOSE m \in S : \A x \in S : m <= x
SetMax(S) == CHOOSE m \in S : \A x \in S : m >= x
Range(s) == {s[i] : i \in 1..Len(s)}

(* ------------------------------------------------------------------ *)
(* Names bound in the namespace of module Layout.py                   *)
(* ------------------------------------------------------------------ *)
\* the names the module itself binds: its imports and its class
ModuleNames == {"json", "Blocks", "utils", "Rectangles", "Layout"}

\* module-level functions the methods call without importing them; they
\* live elsewhere in the package
HelperNames == {"parse_explicit_table", "parse_implicit_table",
                "parse_text_format", "parse_vertical_spacing",
                "_set_table_borders", "_parse_table_structure_from_rects",
                "set_explicit_table_block"}

\* LOAD_GLOBAL: a name resolves iff the module namespace binds it
Bound(name) == name \in globals

(* ------------------------------------------------------------------ *)
(* Margin inference                                                   *)
(* ------------------------------------------------------------------ *)
\* mutant: the bottom halving applied to the normal margin as well
EmptyMargin_Halved == <<Fx(ITP), Fx(ITP), Fx(ITP), Fx(ITP) \div 2>>

\* the margin of a page without blocks
EmptyMargin == <<Fx(ITP), Fx(ITP), Fx(ITP), Fx(ITP)>>

LeftMargin(list_bbox) == SetMin({list_bbox[i][1] : i \in 1..Len(list_bbox)})

\* mutant: the "avoid negative margin" clamp is missing
RightMargin_NoClamp(w, list_bbox, left) ==
    LET x_max == SetMax({list_bbox[i][3] : i \in 1..Len(list_bbox)})
        right0 == Fx(w) - Fx(x_max) - Fx(DM) * 2
    IN  MinOf(right0, Fx(left))

RightMargin(w, list_bbox, left) ==
    LET x_max == SetMax({list_bbox[i][3] : i \in 1..Len(list_bbox)})
        right0 == Fx(w) - Fx(x_max) - Fx(DM) * 2
        right1 == MinOf(right0, Fx(left))
    IN  MaxOf(right1, 0)

TopMargin(list_bbox) == SetMin({list_bbox[i][2] : i \in 1..Len(list_bbox)})

\* mutant: the calculated bottom margin is not reduced
BottomMargin_NoHalving(h, list_bbox) ==
    MaxOf(Fx(h) - Fx(SetMax({list_bbox[i][4] : i \in 1..Len(list_bbox)})), 0)

BottomMargin(h, list_bbox) ==
    LET bottom0 == Fx(h) - Fx(SetMax({list_bbox[i][4] : i \in 1..Len(list_bbox)}))
        bottom1 == MaxOf(bottom0, 0)
    IN  bottom1 \div 2

\* the value page_margin() stores in self._margin
PageMargin(bs, w, h) ==
    IF Len(bs) = 0
    THEN EmptyMargin
    ELSE LET list_bbox == [i \in 1..Len(bs) |-> bs[i].bbox]
             left == LeftMargin(list_bbox)
             right == RightMargin(w, list_bbox, left)
             top == TopMargin(list_bbox)
             bottom == BottomMargin(h, list_bbox)
         IN  <<MinOf(Fx(ITP), Fx(left)),
               MinOf(Fx(ITP), right),
               MinOf(Fx(ITP), Fx(top)),
               MinOf(Fx(ITP), bottom)>>

(* ------------------------------------------------------------------ *)
(* Blocks.preprocessing: drop blocks of zero or negative area, order   *)
(* the rest by reading position (top to bottom, then left to right)    *)
(* ------------------------------------------------------------------ *)
ValidBlock(b) == b.bbox[1] < b.bbox[3] /\ b.bbox[2] < b.bbox[4]

Before(a, b) ==
    \/ a.bbox[2] < b.bbox[2]
    \/ a.bbox[2] = b.bbox[2] /\ a.bbox[1] <= b.bbox[1]

RECURSIVE Insert(_, _)
Insert(b, s) ==
    IF s = <<>> THEN <<b>>
    ELSE IF Before(b, Head(s)) /\ ~(Before(Head(s), b)) THEN <<b>> \o s
    ELSE <<Head(s)>> \o Insert(b, Tail(s))

RECURSIVE SortBlocks(_)
SortBlocks(s) ==
    IF s = <<>> THEN <<>>
    ELSE Insert(s[Len(s)], SortBlocks(SubSeq(s, 1, Len(s) - 1)))

Preprocessing(bs) == SortBlocks(SelectSeq(bs, ValidBlock))

(* ------------------------------------------------------------------ *)
(* Layout.parse: the statements after page_margin()                    *)
(* ------------------------------------------------------------------ *)
\* each statement calls a module-level function on the free variable layout
ParseStatements ==
    << [pass |-> "explicit_table", names |-> <<"parse_explicit_table", "layout">>],
       [pass |-> "implicit_table", names |-> <<"parse_implicit_table", "layout">>],
       [pass |-> "text_format", names |-> <<"parse_text_format", "layout">>],
       [pass |-> "vertical_spacing", names |-> <<"parse_vertical_spacing", "layout">>] >>

Resolves(stmt) == \A i \in 1..Len(stmt.names) : Bound(stmt.names[i])

\* the passes that run: those before the first statement that raises NameError
RECURSIVE RunStatements(_)
RunStatements(stmts) ==
    IF stmts = <<>> THEN <<>>
    ELSE IF Resolves(Head(stmts))
         THEN <<Head(stmts).pass>> \o RunStatements(Tail(stmts))
         ELSE <<>>

(* ------------------------------------------------------------------ *)
(* Inputs                                                             *)
(* ------------------------------------------------------------------ *)
\* utils.DM, the tolerance subtracted twice from the right margin, is set
\* outside Layout.py: a fixed small length, here any of these
TolerancePool == {0, 1, 3}

PagePool == { <<0, 0>>, <<600, 800>>, <<100, 60>> }

BoxPool == { <<50, 60, 550, 100>>, <<50, 120, 550, 760>>,
             <<-5, -8, 40, 30>>, <<80, 90, 95, 110>>,
             <<0, 0, 700, 900>>, <<10, 20, 10, 40>> }

TextBlock(bbox) == [type |-> "text", bbox |-> bbox]

RECURSIVE SeqsUpTo(_, _)
SeqsUpTo(S, n) ==
    IF n = 0 THEN {<<>>}
    ELSE LET shorter == SeqsUpTo(S, n - 1)
         IN  shorter \cup {Append(s, x) : s \in {t \in shorter : Len(t) = n - 1}, x \in S}

(* ------------------------------------------------------------------ *)
(* State after Layout.__init__                                         *)
(* ------------------------------------------------------------------ *)
InitCommon ==
    /\ margin_ = None
    /\ last = "__init__"
    /\ raised = ""
    /\ got = None
    /\ ret = "None"
    /\ trace = <<>>
    /\ tables = <<>>
    /\ spaced = {}
    /\ DM \in TolerancePool

Init ==
    /\ InitCommon
    /\ \E p \in PagePool : width = p[1] /\ height = p[2]
    /\ blocks \in SeqsUpTo({TextBlock(b) : b \in BoxPool}, MaxBlocks)
    /\ rects = <<>>
    /\ grid = <<>>
    /\ globals \in {ModuleNames, ModuleNames \cup HelperNames}

(* ------------------------------------------------------------------ *)
(* Operations                                                         *)
(* ------------------------------------------------------------------ *)
Returns(name, value) ==
    /\ last' = name
    /\ raised' = ""
    /\ ret' = value

Raises(name, exc) ==
    /\ last' = name
    /\ raised' = exc
    /\ ret' = "None"

\* mutant: a second run reduces the cached bottom margin again
page_margin_Drift ==
    /\ margin_' = IF margin_ = None
                  THEN PageMargin(blocks, width, height)
                  ELSE <<margin_[1], margin_[2], margin_[3], margin_[4] \div 2>>
    /\ Returns("page_margin", "None")
    /\ UNCHANGED <<width, height, blocks, rects, grid, globals, DM, got, trace, tables, spaced>>

\* Layout.page_margin
page_margin ==
    /\ margin_' = PageMargin(blocks, width, height)
    /\ Returns("page_margin", "None")
    /\ UNCHANGED <<width, height, blocks, rects, grid, globals, DM, got, trace, tables, spaced>>

\* Layout.margin, the property
margin ==
    /\ got' = margin_
    /\ Returns("margin", "None")
    /\ UNCHANGED <<width, height, blocks, margin_, rects, grid, globals, DM, trace, tables, spaced>>

\* Layout.parse
parse ==
    LET preprocessed == Preprocessing(blocks)
        ran == RunStatements(ParseStatements)
    IN  /\ blocks' = preprocessed
        /\ margin_' = PageMargin(preprocessed, width, height)
        /\ trace' = <<"preprocessing", "page_margin">> \o ran
        /\ IF Len(ran) = Len(ParseStatements)
           THEN Returns("parse", "None")
           ELSE Raises("parse", "NameError")
        /\ UNCHANGED <<width, height, rects, grid, globals, DM, got, tables, spaced>>

Next == page_margin \/ margin \/ parse

Spec == Init /\ [][Next]_vars

(* ------------------------------------------------------------------ *)
(* Explicit table recognition: parse_table_structure_from_rects        *)
(*                                                                     *)
(* A rect is [group, thin, type].  group and thin stand for the rect's *)
(* geometry: the connected cluster it lies in and whether it is a thin *)
(* line; grid[g] tells whether the border rects of cluster g form a    *)
(* grid of at least 2 rows and 2 columns.                              *)
(* ------------------------------------------------------------------ *)
Members(rs, g) == {i \in 1..Len(rs) : rs[i].group = g}

\* Rectangles.group: the clusters, each a set of rect indices
RECURSIVE GroupFrom(_, _)
GroupFrom(rs, g) ==
    IF g > MaxGroups THEN <<>>
    ELSE (IF Members(rs, g) = {} THEN <<>> ELSE <<Members(rs, g)>>)
         \o GroupFrom(rs, g + 1)

Group(rs) == GroupFrom(rs, 1)

GroupId(rs, group) == rs[CHOOSE i \in group : TRUE].group

\* _set_table_borders: tag the thin rects of the group as borders and the
\* others as shading; without a border rect every tag reverts to unclassified
SetTableBorders(rs, group) ==
    LET borders == {i \in group : rs[i].thin}
    IN  IF borders = {}
        THEN [found |-> FALSE,
              rects |-> [i \in 1..Len(rs) |->
                           IF i \in group THEN [rs[i] EXCEPT !.type = UNCLASSIFIED]
                           ELSE rs[i]]]
        ELSE [found |-> TRUE,
              rects |-> [i \in 1..Len(rs) |->
                           IF i \in borders THEN [rs[i] EXCEPT !.type = BORDER]
                           ELSE IF i \in group THEN [rs[i] EXCEPT !.type = SHADING]
                           ELSE rs[i]]]

\* _parse_table_structure_from_rects: <<table>> when the border rects of the
\* group form a grid, <<>> (None) otherwise; one rect alone is never a table
ParseTableStructure(rs, group) ==
    IF grid[GroupId(rs, group)] /\ Cardinality({i \in group : rs[i].type = BORDER}) >= 2
    THEN <<[type |-> "table", group |-> GroupId(rs, group), explicit |-> FALSE]>>
    ELSE <<>>

\* set_explicit_table_block
SetExplicitTableBlock(table) == [table EXCEPT !.explicit = TRUE]

\* mutant: the tags of a group whose grid parsing failed are left as they are
ResetType_Skipped(rs, group) == rs

\* for rect in group: rect['type'] = -1
ResetType(rs, group) ==
    [i \in 1..Len(rs) |->
        IF i \in group THEN [rs[i] EXCEPT !.type = UNCLASSIFIED] ELSE rs[i]]

Outcome(rs, tbls, exc) == [rects |-> rs, tables |-> tbls, raised |-> exc]

\* the loop "for group in groups"
RECURSIVE CheckGroups(_, _, _)
CheckGroups(groups, rs, tbls) ==
    IF groups = <<>> THEN Outcome(rs, tbls, "")
    ELSE IF ~Bound("_set_table_borders") THEN Outcome(rs, tbls, "NameError")
    ELSE LET group == Head(groups)
             classified == SetTableBorders(rs, group)
         IN  IF ~classified.found
             THEN CheckGroups(Tail(groups), classified.rects, tbls)
             ELSE IF ~Bound("_parse_table_structure_from_rects")
             THEN Outcome(classified.rects, tbls, "NameError")
             ELSE LET table == ParseTableStructure(classified.rects, group)
                  IN  IF table # <<>>
                      THEN IF ~Bound("set_explicit_table_block")
                           THEN Outcome(classified.rects, tbls, "NameError")
                           ELSE CheckGroups(Tail(groups), classified.rects,
                                            Append(tbls, SetExplicitTableBlock(table[1])))
                      ELSE CheckGroups(Tail(groups), ResetType(classified.rects, group), tbls)

\* Layout.parse_table_structure_from_rects
parse_table_structure_from_rects ==
    LET out == CheckGroups(Group(rects), rects, <<>>)
    IN  /\ rects' = out.rects
        /\ tables' = out.tables
        \* layout['blocks'].extend(tables) names the free variable layout:
        \* self.blocks is not what it extends
        /\ blocks' = blocks
        /\ IF out.raised # ""
           THEN Raises("parse_table_structure_from_rects", out.raised)
           ELSE IF out.tables # <<>>
           THEN IF Bound("layout")
                THEN Returns("parse_table_structure_from_rects", "True")
                ELSE Raises("parse_table_structure_from_rects", "NameError")
           ELSE Returns("parse_table_structure_from_rects", "False")
        /\ UNCHANGED <<width, height, margin_, grid, globals, DM, got, trace, spaced>>

RectPool == {[group |-> g, thin |-> t, type |-> UNCLASSIFIED] :
                g \in 1..MaxGroups, t \in BOOLEAN}

InitTable ==
    /\ InitCommon
    /\ width = 600 /\ height = 800
    /\ blocks \in {<<>>, <<TextBlock(<<50, 60, 550, 100>>)>>}
    /\ rects \in SeqsUpTo(RectPool, MaxRects)
    /\ grid \in [1..MaxGroups -> BOOLEAN]
    \* the helper functions are taken as bound, so that the loop body runs
    /\ globals = ModuleNames \cup HelperNames

NextTable == parse_table_structure_from_rects

SpecTable == InitTable /\ [][NextTable]_vars

(* ------------------------------------------------------------------ *)
(* Vertical spacing: parse_vertical_spacing                            *)
(*                                                                     *)
(* A table block owns rows of cells; a cell is EmptyCell (a merged     *)
(* placeholder) or owns a raw box, border widths (top, right, bottom,  *)
(* left) and its own blocks.  A scope is named by its path: <<>> is    *)
(* the page, p \o <<i, r, c>> the cell at row r, column c of block i   *)
(* of scope p.                                                         *)
(* ------------------------------------------------------------------ *)
EmptyCell == [bbox_raw |-> <<0, 0, 0, 0>>, border_width |-> <<0, 0, 0, 0>>, blocks |-> <<>>]

Cell(c, content) ==
    [bbox_raw |-> <<100 + 200 * (c - 1), 200, 100 + 200 * c, 400>>,
     border_width |-> <<1, 2, 3, 2>>,
     blocks |-> content]

TableBlock(row) == [type |-> "table", bbox |-> <<100, 200, 500, 400>>, cells |-> <<row>>]

\* bool(cell)
CellTruth(cell) == cell # EmptyCell

\* block.is_table_block()
IsTableBlock(b) == b.type = "table"

\* block collections nested at most d tables deep
RECURSIVE ContentSet(_)
ContentSet(d) ==
    {<<>>, <<TextBlock(<<120, 210, 280, 240>>)>>} \cup
    (IF d = 0 THEN {}
     ELSE LET cellsOf(c) == {EmptyCell} \cup {Cell(c, b) : b \in ContentSet(d - 1)}
          IN  {<<TableBlock(<<c1, c2>>)>> : c1 \in cellsOf(1), c2 \in cellsOf(2)})

\* Blocks.parse_vertical_spacing(Y0, Y1) on the blocks of one scope: spacing
\* is assigned to the sibling blocks of that scope, between Y0 and Y1
BlocksParseVerticalSpacing(scope, Y0, Y1) == {[scope |-> scope, Y0 |-> Y0, Y1 |-> Y1]}

\* the loop over the tables of self.blocks, their rows and their cells
CellLevelSpacing(bs) ==
    UNION { BlocksParseVerticalSpacing(<<i, r, c>>,
                Fx(bs[i].cells[r][c].bbox_raw[2]) + bs[i].cells[r][c].border_width[1],
                Fx(bs[i].cells[r][c].bbox_raw[4]) - bs[i].cells[r][c].border_width[3]) :
            <<i, r, c>> \in
              { t \in (1..Len(bs)) \X (1..1) \X (1..2) :
                  /\ IsTableBlock(bs[t[1]])
                  /\ t[2] \in 1..Len(bs[t[1]].cells)
                  /\ t[3] \in 1..Len(bs[t[1]].cells[t[2]])
                  /\ CellTruth(bs[t[1]].cells[t[2]][t[3]]) } }

\* Layout.parse_vertical_spacing
parse_vertical_spacing ==
    /\ IF margin_ = None
       THEN \* self.margin[-2:] on None
            /\ spaced' = {}
            /\ Raises("parse_vertical_spacing", "TypeError")
       ELSE LET top == margin_[3]
                bottom == margin_[4]
            IN  /\ spaced' = BlocksParseVerticalSpacing(<<>>, top, Fx(height) - bottom)
                                \cup CellLevelSpacing(blocks)
                /\ Returns("parse_vertical_spacing", "None")
    /\ UNCHANGED <<width, height, blocks, margin_, rects, grid, globals, DM, got, trace, tables>>

InitSpacing ==
    /\ InitCommon
    /\ width = 600 /\ height = 800
    /\ blocks \in ContentSet(MaxDepth)
    /\ rects = <<>>
    /\ grid = <<>>
    /\ globals = ModuleNames

NextSpacing == page_margin \/ parse_vertical_spacing

SpecSpacing == InitSpacing /\ [][NextSpacing]_vars

(* ------------------------------------------------------------------ *)
(* Properties of margin inference, checked under Spec                  *)
(* ------------------------------------------------------------------ *)
Normal == Fx(ITP)
AllX0 == {blocks[i].bbox[1] : i \in 1..Len(blocks)}
AllY0 == {blocks[i].bbox[2] : i \in 1..Len(blocks)}
AllX1 == {blocks[i].bbox[3] : i \in 1..Len(blocks)}
AllY1 == {blocks[i].bbox[4] : i \in 1..Len(blocks)}
MarginStored == margin_ # None

\* C1: with a non-empty block collection, after page_margin() each of the
\* four stored margins is >= 0 and <= the normal margin ITP, whatever the
\* page size and the block boxes are (negative coordinates included).
C1_MarginsWithinNormal ==
    (MarginStored /\ blocks # <<>>) =>
        \A i \in 1..4 : 0 <= margin_[i] /\ margin_[i] <= Normal

\* C2: with a non-empty block collection, after page_margin() the stored
\* right margin never exceeds the stored left margin.
C2_RightNotAboveLeft ==
    (MarginStored /\ blocks # <<>>) => margin_[2] <= margin_[1]

\* C3: with an empty block collection page_margin() stores the normal
\* margin ITP on all four sides, whatever the page width and height are.
C3_EmptyGivesNormal ==
    (MarginStored /\ blocks = <<>>) => margin_ = <<Normal, Normal, Normal, Normal>>

C3_Witness ==
    /\ last = "page_margin" /\ blocks = <<>> /\ width = 600 /\ height = 800
    /\ margin_ = <<Normal, Normal, Normal, Normal>>

\* C7: page_margin() run again on a Layout whose margin is already cached
\* (blocks and page size unmodified since) leaves the cached margin as it
\* was, and reading the margin property returns the cached value and does
\* not change it.
C7_MarginIdempotent ==
    [][ /\ (page_margin /\ MarginStored) => margin_' = margin_
        /\ margin => (got' = margin_ /\ margin_' = margin_) ]_vars

\* the margin was computed, read, and computed again: it still equals the
\* value read in between
C7_Witness ==
    /\ last = "page_margin" /\ blocks # <<>> /\ got # None /\ got = margin_

C4_ParseRunsAllPasses ==
    last = "parse" =>
        /\ raised = ""
        /\ trace = <<"preprocessing", "page_margin", "explicit_table",
                     "implicit_table", "text_format", "vertical_spacing">>

(* ------------------------------------------------------------------ *)
(* Properties of table recognition, checked under SpecTable            *)
(* ------------------------------------------------------------------ *)
AfterTableCall == last = "parse_table_structure_from_rects"
GroupIds == {rects[i].group : i \in 1..Len(rects)}
HasTable(g) == \E k \in 1..Len(tables) : tables[k].group = g
NoBorderRect(g) == \A i \in Members(rects, g) : ~rects[i].thin
GridFails(g) == ~grid[g] \/ Cardinality({i \in Members(rects, g) : rects[i].thin}) < 2
Released(g) == \A i \in Members(rects, g) : rects[i].type = UNCLASSIFIED

C6_TablesJoinOwnBlocks ==
    AfterTableCall =>
        /\ raised = ""
        /\ (ret = "True") <=> (tables # <<>>)
        /\ \A k \in 1..Len(tables) : \E j \in 1..Len(blocks) : blocks[j] = tables[k]

(* ------------------------------------------------------------------ *)
(* Properties of vertical spacing, checked under SpecSpacing           *)
(* ------------------------------------------------------------------ *)
\* the non-empty cells reachable from a block collection, at any depth
RECURSIVE ReachableCells(_, _)
ReachableCells(bs, path) ==
    UNION { LET cell == bs[t[1]].cells[t[2]][t[3]]
                here == path \o <<t[1], t[2], t[3]>>
            IN  IF CellTruth(cell)
                THEN {here} \cup ReachableCells(cell.blocks, here)
                ELSE {} :
            t \in { u \in (1..Len(bs)) \X (1..1) \X (1..2) : IsTableBlock(bs[u[1]]) } }

\* C8: parse_vertical_spacing computes spacing for the blocks of exactly the
\* non-empty cells reachable from the top-level blocks, cells of tables
\* nested inside a cell included, and of no other cell.
C8_AllReachableCellsSpaced ==
    (last = "parse_vertical_spacing" /\ raised = "") =>
        {s.scope : s \in spaced} \ {<<>>} = ReachableCells(blocks, <<>>)
====
